---- MODULE Spec2Model ----
(***************************************************************************)
(* The streaming bridge of irp-next: the client-facing gateway            *)
(* (src/api.py chat_completions, stream_generator), the admission queue   *)
(* and its single worker (src/api.py API.worker, API.stop), and the       *)
(* driver lifecycle that gates admission (src/deepseek_driver.py start,   *)
(* close, _handle_crash; src/main.py start_services, stop_services,       *)
(* on_browser_crashed).                                                   *)
(*                                                                         *)
(* Every `await` of a coroutine is a step boundary.  task.cancel() only   *)
(* requests cancellation; the CancelledError is raised inside the worker  *)
(* at the await on which it is suspended (request_queue.get()).           *)
(*                                                                         *)
(* The worker calls driver.generate_response(message=, model=, stream=,   *)
(* temperature=, top_p=, abort_event=) (src/api.py:151-158).  The         *)
(* generator function is declared with the parameters message, model,     *)
(* stream, temperature, top_p only (src/deepseek_driver.py:131).  Python  *)
(* binds the arguments when the generator function is called, before any  *)
(* line of its body runs, so the call raises TypeError inside the         *)
(* worker's try block: see GenerateResponseBinds and WorkerDequeue.       *)
(*                                                                         *)
(* The driver's patch decoder (src/deepseek_driver.py _process_chunk) and *)
(* its sessions (generate_response, handle_route) are specified on their  *)
(* own, under the frames a backend response can carry and under a caller  *)
(* of generate_response: see DecoderSpec and SessionSpec.  StreamSpec     *)
(* feeds the decoder the bytes of a backend response in network chunks,   *)
(* TapSpec follows the page routes of successive calls, and PromptSpec    *)
(* the clean-regeneration cache across calls and setting changes.         *)
(***************************************************************************)
EXTENDS Integers, Sequences, FiniteSets, TLC

\* ------------------------------------------------------------------ bounds
\* Number of HTTP requests that arrive during one service run.
MaxRequests == 2

\* Requests are numbered in the order in which they arrive.
Requests == 1..MaxRequests

\* Number of generate_response calls made on one driver.
MaxSessions == 2

\* Sessions are numbered in the order of the calls.
Sessions == 1..MaxSessions

\* ------------------------------------------------------------------ values
\* The termination sentinel: response_queue.put(None).
NoneSentinel == [kind |-> "none"]

\* The wire frame the relay yields on reading the sentinel.
DoneMarker == [kind |-> "done"]

\* The keyword arguments of the call in API.worker.
WorkerCallKeywords ==
    {"message", "model", "stream", "temperature", "top_p", "abort_event"}

\* The parameters generate_response declares (self left out).
GenerateResponseParams ==
    {"message", "model", "stream", "temperature", "top_p"}

\* Whether the call binds: every keyword names a declared parameter.
GenerateResponseBinds == WorkerCallKeywords \subseteq GenerateResponseParams

\* The exception the call raises when it does not bind: TypeError,
\* "generate_response() got an unexpected keyword argument '<k>'".
BindError ==
    [exc |-> "TypeError",
     keyword |-> CHOOSE k \in WorkerCallKeywords \ GenerateResponseParams : TRUE]

\* The error chunk the worker builds in its except clause:
\* data: {"error": {"message": str(e), "type": "internal_error", ...}}
ErrorFrame(msg) ==
    [kind |-> "error", message |-> msg, type |-> "internal_error"]

\* An OpenAI-style chunk as _process_chunk builds it: "choices" with one
\* entry whose delta holds "content" only when content is non-empty.
ChunkFrame(text, fr) ==
    [kind |-> "chunk", content |-> text, finish_reason |-> fr]

VARIABLES
    is_running,          \* driver.is_running
    monitoring_active,   \* driver.monitoring_active
    abort_requested,     \* driver.abort_requested (set by the relay)
    serverUp,            \* the uvicorn server task accepts connections
    request_queue,       \* API.request_queue: sequence of WorkItems
    phase,               \* position of each request's gateway handler
    stream,              \* request.stream
    connected,           \* the caller's connection is open
    abort_event,         \* the request's asyncio.Event
    chan,                \* the request's response_queue
    written,             \* history: every put on the request's response_queue
    delivered,           \* history: what the streaming caller received
    full_content,        \* non-streaming accumulator
    finish_reason,       \* non-streaming accumulator
    final,               \* the returned non-streaming body
    workerPc,            \* position of API.worker
    workerItem,          \* the WorkItem the worker holds (0: none)
    current_abort_event, \* API.current_abort_event (0: None)
    pendingError,        \* the exception caught by the worker's except clause
    cancelRequested,     \* worker_task.cancel() was called
    stopPc,              \* position of API.stop
    abortedAtDequeue     \* history: requests whose event was set when dequeued

VARIABLES
    fragment_types_list, \* driver.fragment_types_list
    thinking_active,     \* driver.thinking_active
    anti_censorship,     \* setting deepseek_behavior.anti_censorship
    send_deepthink,      \* setting deepseek_behavior.send_deepthink
    decoderPc,           \* position of _process_chunk: "idle" or "ops"
    content,             \* _process_chunk: content of the current data line
    data_finish_reason,  \* _process_chunk: finish_reason of the current line
    should_stop_processing, \* _process_chunk: the loop over ops was left
    frame_form,          \* history: shape of the last backend frame
    frame_ops,           \* history: the operations of that frame
    list_before,         \* history: fragment_types_list before that frame
    thinking_before,     \* history: thinking_active before that frame
    emitted,             \* history: what _process_chunk put on the queue for it
    descriptors_seen     \* history: types of the descriptors the backend sent

VARIABLES
    session,             \* number of generate_response calls so far
    consumer,            \* what the caller does with the latest generator
    handler,             \* position of each session's handle_route
    frame_session,       \* history: the session whose handler decoded the last frame
    own_list,            \* history: fragment_types_list from the session's own frames
    own_thinking,        \* history: thinking_active from the session's own frames
    own_emitted          \* history: the chunk the session's own frames give

VARIABLES
    out,                 \* history: the chunks put on the response_queue of the session
    ref_out,             \* history: the chunks the whole, well-formed lines give
    raised,              \* an exception left the loop over the lines of the chunk
    straddling,          \* the data line whose head ended the last chunk
    split_seen,          \* history: some data line straddled two chunks
    failed_seen,         \* history: some line failed to decode
    lines_fed            \* number of lines of the response so far

VARIABLES
    routes,              \* page routes: the handle_route closures per URL pattern
    genPc,               \* position of each generate_response generator
    sentinel_put,        \* history: calls after which the caller put None
    missed               \* history: calls whose backend request no route took

VARIABLES
    clean_setting,       \* setting deepseek_behavior.clean_regeneration
    clean_regeneration,  \* generate_response: the setting as read by the call
    last_message,        \* cache file last_message.txt (0: no file)
    formatted_message,   \* generate_response: formatted_message
    regenerated,         \* generate_response: regenerated
    ui_prompt,           \* the prompt last sent in the chat the page shows
    promptPc             \* position of the UI interaction of the call

bridgeVars == <<is_running, monitoring_active, abort_requested, serverUp,
                request_queue, phase, stream, connected, abort_event, chan,
                written, delivered, full_content, finish_reason, final,
                workerPc, workerItem, current_abort_event, pendingError,
                cancelRequested, stopPc, abortedAtDequeue>>

decoderState == <<fragment_types_list, thinking_active>>
settingVars == <<anti_censorship, send_deepthink>>
lineVars == <<decoderPc, content, data_finish_reason, should_stop_processing>>
frameVars == <<frame_form, frame_ops, list_before, thinking_before, emitted,
               descriptors_seen>>

sessionVars == <<session, consumer, handler, frame_session, own_list,
                 own_thinking, own_emitted>>

streamVars == <<out, ref_out, raised, straddling, split_seen, failed_seen,
                lines_fed>>

tapVars == <<routes, genPc, sentinel_put, missed>>

promptVars == <<clean_setting, clean_regeneration, last_message,
                formatted_message, regenerated, ui_prompt, promptPc>>

decoderVars == <<decoderState, settingVars, lineVars, frameVars, sessionVars,
                 streamVars, tapVars, promptVars>>

vars == <<bridgeVars, decoderVars>>

driverVars == <<is_running, monitoring_active>>
gatewayVars == <<phase, stream, connected, delivered, full_content,
                 finish_reason, final>>
workerVars == <<workerPc, workerItem, current_abort_event, pendingError,
                abortedAtDequeue>>

\* ------------------------------------------------------------------ helpers
InQueue(r) == \E i \in 1..Len(request_queue) : request_queue[i] = r

Admitted(r) == phase[r] \notin {"none", "rejected"}

Dequeued(r) == Admitted(r) /\ ~InQueue(r)

Count(s, x) == Cardinality({i \in 1..Len(s) : s[i] = x})

NonSentinel(s) == SelectSeq(s, LAMBDA f : f # NoneSentinel)

\* ------------------------------------------------------------------ Init
\* The bridge after API.__init__ (start_services, before driver.start()).
BridgeInit ==
    /\ is_running = FALSE
    /\ monitoring_active = FALSE
    /\ abort_requested = FALSE
    /\ serverUp = FALSE
    /\ request_queue = <<>>
    /\ phase = [r \in Requests |-> "none"]
    /\ stream = [r \in Requests |-> FALSE]
    /\ connected = [r \in Requests |-> FALSE]
    /\ abort_event = [r \in Requests |-> FALSE]
    /\ chan = [r \in Requests |-> <<>>]
    /\ written = [r \in Requests |-> <<>>]
    /\ delivered = [r \in Requests |-> <<>>]
    /\ full_content = [r \in Requests |-> <<>>]
    /\ finish_reason = [r \in Requests |-> "null"]
    /\ final = [r \in Requests |-> [kind |-> "none"]]
    /\ workerPc = "get"
    /\ workerItem = 0
    /\ current_abort_event = 0
    /\ pendingError = "none"
    /\ cancelRequested = FALSE
    /\ stopPc = "idle"
    /\ abortedAtDequeue = {}

\* generate_response has not been called.
NoSession ==
    /\ session = 0
    /\ consumer = "none"
    /\ handler = [s \in Sessions |-> "none"]
    /\ frame_session = 0
    /\ own_list = <<>>
    /\ own_thinking = FALSE
    /\ own_emitted = <<>>

\* handle_route has read nothing of a backend response.
NoStream ==
    /\ out = <<>>
    /\ ref_out = <<>>
    /\ raised = FALSE
    /\ straddling = <<>>
    /\ split_seen = FALSE
    /\ failed_seen = FALSE
    /\ lines_fed = 0

\* The two URL patterns generate_response routes.
Patterns == {"completion", "regenerate"}

\* No generate_response call has routed anything on the page.
NoTap ==
    /\ routes = [p \in Patterns |-> <<>>]
    /\ genPc = [s \in Sessions |-> "none"]
    /\ sentinel_put = {}
    /\ missed = {}

\* A started driver: start() has removed last_message.txt and the page
\* shows no chat; clean_regeneration defaults to False.
NoPrompt ==
    /\ clean_setting = FALSE
    /\ clean_regeneration = FALSE
    /\ last_message = 0
    /\ formatted_message = 0
    /\ regenerated = FALSE
    /\ ui_prompt = 0
    /\ promptPc = "idle"

\* The decoder attributes of a driver on which generate_response has not
\* run: fragment_types_list and thinking_active are not set by __init__ and
\* are read through hasattr / getattr(..., False); both settings default to
\* False.
DecoderIdle ==
    /\ fragment_types_list = <<>>
    /\ thinking_active = FALSE
    /\ anti_censorship = FALSE
    /\ send_deepthink = FALSE
    /\ decoderPc = "idle"
    /\ content = <<>>
    /\ data_finish_reason = "null"
    /\ should_stop_processing = FALSE
    /\ frame_form = "none"
    /\ frame_ops = <<>>
    /\ list_before = <<>>
    /\ thinking_before = FALSE
    /\ emitted = <<>>
    /\ descriptors_seen = <<>>
    /\ NoSession
    /\ NoStream
    /\ NoTap
    /\ NoPrompt

\* The state after construction.
Init == BridgeInit /\ DecoderIdle

\* ------------------------------------------------------------------ lifecycle
\* main.py start_services: driver.start() sets is_running and starts the
\* monitor, then the server task is created.
StartServices ==
    /\ ~serverUp /\ ~is_running /\ stopPc = "idle"
    /\ is_running' = TRUE
    /\ monitoring_active' = TRUE
    /\ serverUp' = TRUE
    /\ UNCHANGED <<abort_requested, request_queue, gatewayVars, abort_event,
                   chan, written, workerVars, cancelRequested, stopPc>>
    /\ UNCHANGED decoderVars

\* API.stop up to its await: worker_task.cancel(), then await worker_task.
StopCall ==
    /\ cancelRequested' = TRUE
    /\ stopPc' = "awaiting"

\* driver._handle_crash: the monitor found the browser gone.  The crash
\* callback (main.py on_browser_crashed) runs up to its first suspension,
\* the await inside API.stop.
HandleCrash ==
    /\ monitoring_active
    /\ is_running' = FALSE
    /\ monitoring_active' = FALSE
    /\ IF stopPc = "idle" THEN StopCall ELSE UNCHANGED <<cancelRequested, stopPc>>
    /\ UNCHANGED <<abort_requested, serverUp, request_queue, gatewayVars,
                   abort_event, chan, written, workerVars>>
    /\ UNCHANGED decoderVars

\* main.py stop_services: the user pressed Stop; API.stop is called first.
StopServices ==
    /\ serverUp
    /\ stopPc = "idle"
    /\ StopCall
    /\ UNCHANGED <<driverVars, abort_requested, serverUp, request_queue,
                   gatewayVars, abort_event, chan, written, workerVars>>
    /\ UNCHANGED decoderVars

\* API.stop: `await self.worker_task` ends once the task is done; the
\* CancelledError it re-raises is caught and stop returns.
StopReturn ==
    /\ stopPc = "awaiting"
    /\ workerPc = "cancelled"
    /\ stopPc' = "returned"
    /\ UNCHANGED <<driverVars, abort_requested, serverUp, request_queue,
                   gatewayVars, abort_event, chan, written, workerVars,
                   cancelRequested>>
    /\ UNCHANGED decoderVars

\* After API.stop returned: server.should_exit, the server task ends.
ServerExit ==
    /\ stopPc = "returned"
    /\ serverUp
    /\ serverUp' = FALSE
    /\ UNCHANGED <<driverVars, abort_requested, request_queue, gatewayVars,
                   abort_event, chan, written, workerVars, cancelRequested,
                   stopPc>>
    /\ UNCHANGED decoderVars

\* driver.close, called after the server task ended.
DriverClose ==
    /\ stopPc = "returned"
    /\ ~serverUp
    /\ is_running \/ monitoring_active
    /\ is_running' = FALSE
    /\ monitoring_active' = FALSE
    /\ UNCHANGED <<abort_requested, serverUp, request_queue, gatewayVars,
                   abort_event, chan, written, workerVars, cancelRequested,
                   stopPc>>
    /\ UNCHANGED decoderVars

\* ------------------------------------------------------------------ gateway
\* Mutant of Submit: the is_running precondition is missing.
SubmitWithoutRunningCheck(r, s) ==
    /\ serverUp
    /\ phase[r] = "none"
    /\ \A q \in Requests : q < r => phase[q] # "none"
    /\ request_queue' = Append(request_queue, r)
    /\ stream' = [stream EXCEPT ![r] = s]
    /\ connected' = [connected EXCEPT ![r] = TRUE]
    /\ phase' = [phase EXCEPT ![r] = IF s THEN "relay_check" ELSE "drain"]
    /\ UNCHANGED <<driverVars, abort_requested, serverUp, abort_event, chan,
                   written, delivered, full_content, finish_reason, final,
                   workerVars, cancelRequested, stopPc>>
    /\ UNCHANGED decoderVars

\* chat_completions up to its return / its first wait on the channel.
\* Not running: HTTPException 503 before anything is created.  Otherwise a
\* fresh response_queue and abort_event are enqueued with the request.
Submit(r, s) ==
    /\ serverUp
    /\ phase[r] = "none"
    /\ \A q \in Requests : q < r => phase[q] # "none"
    /\ IF ~is_running
       THEN /\ phase' = [phase EXCEPT ![r] = "rejected"]
            /\ UNCHANGED <<request_queue, stream, connected>>
       ELSE /\ request_queue' = Append(request_queue, r)
            /\ stream' = [stream EXCEPT ![r] = s]
            /\ connected' = [connected EXCEPT ![r] = TRUE]
            /\ phase' = [phase EXCEPT ![r] = IF s THEN "relay_check" ELSE "drain"]
    /\ UNCHANGED <<driverVars, abort_requested, serverUp, abort_event, chan,
                   written, delivered, full_content, finish_reason, final,
                   workerVars, cancelRequested, stopPc>>
    /\ UNCHANGED decoderVars

\* The caller closes its connection.
ClientDisconnect(r) ==
    /\ phase[r] \in {"relay_check", "relay_wait", "drain"}
    /\ connected[r]
    /\ connected' = [connected EXCEPT ![r] = FALSE]
    /\ UNCHANGED <<driverVars, abort_requested, serverUp, request_queue, phase,
                   stream, abort_event, chan, written, delivered, full_content,
                   finish_reason, final, workerVars, cancelRequested, stopPc>>
    /\ UNCHANGED decoderVars

\* stream_generator, top of the loop: `await raw_request.is_disconnected()`.
\* Disconnected: set the event and driver.abort_requested, leave the loop.
RelayCheck(r) ==
    /\ phase[r] = "relay_check"
    /\ IF ~connected[r]
       THEN /\ abort_event' = [abort_event EXCEPT ![r] = TRUE]
            /\ abort_requested' = TRUE
            /\ phase' = [phase EXCEPT ![r] = "stopped"]
       ELSE /\ phase' = [phase EXCEPT ![r] = "relay_wait"]
            /\ UNCHANGED <<abort_event, abort_requested>>
    /\ UNCHANGED <<driverVars, serverUp, request_queue, stream, connected, chan,
                   written, delivered, full_content, finish_reason, final,
                   workerVars, cancelRequested, stopPc>>
    /\ UNCHANGED decoderVars

\* stream_generator: wait_for(response_queue.get(), 0.5) returned a chunk.
\* The sentinel gives the [DONE] marker and ends the stream; anything else
\* is yielded as it is.
RelayGet(r) ==
    /\ phase[r] = "relay_wait"
    /\ chan[r] # <<>>
    /\ LET chunk == Head(chan[r]) IN
         /\ chan' = [chan EXCEPT ![r] = Tail(chan[r])]
         /\ IF chunk = NoneSentinel
            THEN /\ delivered' = [delivered EXCEPT ![r] = Append(@, DoneMarker)]
                 /\ phase' = [phase EXCEPT ![r] = "done"]
            ELSE /\ delivered' = [delivered EXCEPT ![r] = Append(@, chunk)]
                 /\ phase' = [phase EXCEPT ![r] = "relay_check"]
    /\ UNCHANGED <<driverVars, abort_requested, serverUp, request_queue, stream,
                   connected, abort_event, written, full_content, finish_reason,
                   final, workerVars, cancelRequested, stopPc>>
    /\ UNCHANGED decoderVars

\* A relay whose wait has no timeout: on an empty channel it stays where it
\* is.
RelayWaitsWithoutTimeout(r) ==
    /\ phase[r] = "relay_wait"
    /\ chan[r] = <<>>
    /\ UNCHANGED vars

\* stream_generator: the wait timed out (asyncio.TimeoutError), loop again.
RelayTimeout(r) ==
    /\ phase[r] = "relay_wait"
    /\ chan[r] = <<>>
    /\ phase' = [phase EXCEPT ![r] = "relay_check"]
    /\ UNCHANGED <<driverVars, abort_requested, serverUp, request_queue, stream,
                   connected, abort_event, chan, written, delivered,
                   full_content, finish_reason, final, workerVars,
                   cancelRequested, stopPc>>
    /\ UNCHANGED decoderVars

\* stream_generator: CancelledError or GeneratorExit reaches the generator
\* (the response task is cancelled once the caller is gone, or at
\* shutdown): both handlers set the event and driver.abort_requested.
RelayCancelled(r) ==
    /\ phase[r] \in {"relay_check", "relay_wait"}
    /\ ~connected[r] \/ ~serverUp
    /\ abort_event' = [abort_event EXCEPT ![r] = TRUE]
    /\ abort_requested' = TRUE
    /\ phase' = [phase EXCEPT ![r] = "cancelled"]
    /\ UNCHANGED <<driverVars, serverUp, request_queue, stream, connected, chan,
                   written, delivered, full_content, finish_reason, final,
                   workerVars, cancelRequested, stopPc>>
    /\ UNCHANGED decoderVars

\* The non-streaming loop body for one chunk that is not the sentinel:
\* chunks that start with "data: " are parsed; "[DONE]" is skipped; a
\* payload with "choices" adds delta["content"] when the delta has it and
\* overwrites finish_reason with choices[0].get("finish_reason"); any other
\* payload (the worker's error chunk has no "choices") changes nothing.
Accumulate(acc, chunk) ==
    IF chunk.kind = "chunk"
    THEN [content |-> IF chunk.content # <<>>
                      THEN acc.content \o chunk.content
                      ELSE acc.content,
          finish_reason |-> chunk.finish_reason]
    ELSE acc

\* The body chat_completions returns: always a chat.completion object.
FinalResponse(text, fr) ==
    [kind |-> "chat.completion",
     content |-> text,
     finish_reason |-> IF fr = "null" THEN "stop" ELSE fr]

\* chat_completions, non-streaming: `await response_queue.get()` returned.
DrainGet(r) ==
    /\ phase[r] = "drain"
    /\ chan[r] # <<>>
    /\ LET chunk_str == Head(chan[r])
           acc == Accumulate([content |-> full_content[r],
                              finish_reason |-> finish_reason[r]], chunk_str)
       IN
         /\ chan' = [chan EXCEPT ![r] = Tail(chan[r])]
         /\ IF chunk_str = NoneSentinel
            THEN /\ final' = [final EXCEPT ![r] =
                                FinalResponse(full_content[r], finish_reason[r])]
                 /\ phase' = [phase EXCEPT ![r] = "returned"]
                 /\ UNCHANGED <<full_content, finish_reason>>
            ELSE /\ full_content' = [full_content EXCEPT ![r] = acc.content]
                 /\ finish_reason' = [finish_reason EXCEPT ![r] = acc.finish_reason]
                 /\ UNCHANGED <<final, phase>>
    /\ UNCHANGED <<driverVars, abort_requested, serverUp, request_queue, stream,
                   connected, abort_event, written, delivered, workerVars,
                   cancelRequested, stopPc>>
    /\ UNCHANGED decoderVars

\* chat_completions, non-streaming: the handler task is cancelled while it
\* waits on response_queue.get().  No except clause surrounds the loop: the
\* CancelledError unwinds the handler and the event stays as it is.
DrainCancelled(r) ==
    /\ phase[r] = "drain"
    /\ ~connected[r] \/ ~serverUp
    /\ phase' = [phase EXCEPT ![r] = "cancelled"]
    /\ UNCHANGED <<driverVars, abort_requested, serverUp, request_queue, stream,
                   connected, abort_event, chan, written, delivered,
                   full_content, finish_reason, final, workerVars,
                   cancelRequested, stopPc>>
    /\ UNCHANGED decoderVars

\* ------------------------------------------------------------------ worker
\* Mutant of WorkerDequeue: the next item is taken while an item is still
\* being run (the session is not awaited to its end).
WorkerDequeueWithoutWaiting ==
    /\ workerPc \in {"get", "except", "finally"}
    /\ ~cancelRequested
    /\ request_queue # <<>>
    /\ LET r == Head(request_queue) IN
         /\ request_queue' = Tail(request_queue)
         /\ workerItem' = r
         /\ current_abort_event' = r
         /\ pendingError' = BindError
         /\ abortedAtDequeue' = IF abort_event[r]
                                THEN abortedAtDequeue \cup {r}
                                ELSE abortedAtDequeue
    /\ workerPc' = "except"
    /\ UNCHANGED <<driverVars, abort_requested, serverUp, gatewayVars,
                   abort_event, chan, written, cancelRequested, stopPc>>
    /\ UNCHANGED decoderVars

\* Mutant of WorkerDequeue: the queue is served from its tail.
WorkerDequeueFromTail ==
    /\ workerPc = "get"
    /\ ~cancelRequested
    /\ request_queue # <<>>
    /\ LET r == request_queue[Len(request_queue)] IN
         /\ request_queue' = SubSeq(request_queue, 1, Len(request_queue) - 1)
         /\ workerItem' = r
         /\ current_abort_event' = r
         /\ pendingError' = BindError
         /\ abortedAtDequeue' = IF abort_event[r]
                                THEN abortedAtDequeue \cup {r}
                                ELSE abortedAtDequeue
    /\ workerPc' = "except"
    /\ UNCHANGED <<driverVars, abort_requested, serverUp, gatewayVars,
                   abort_event, chan, written, cancelRequested, stopPc>>
    /\ UNCHANGED decoderVars

\* API.worker: request_queue.get() returns the head item; current_abort_event
\* is set; the call of driver.generate_response raises BindError inside the
\* try block, `except Exception` catches it and builds the error chunk.
\* Control stops at `await response_queue.put(<error chunk>)`.
WorkerDequeue ==
    /\ workerPc = "get"
    /\ ~cancelRequested
    /\ request_queue # <<>>
    /\ ~GenerateResponseBinds
    /\ LET r == Head(request_queue) IN
         /\ request_queue' = Tail(request_queue)
         /\ workerItem' = r
         /\ current_abort_event' = r
         /\ pendingError' = BindError
         /\ abortedAtDequeue' = IF abort_event[r]
                                THEN abortedAtDequeue \cup {r}
                                ELSE abortedAtDequeue
    /\ workerPc' = "except"
    /\ UNCHANGED <<driverVars, abort_requested, serverUp, gatewayVars,
                   abort_event, chan, written, cancelRequested, stopPc>>
    /\ UNCHANGED decoderVars

\* The put of one frame on the channel of the item the worker holds.
Put(r, f) ==
    /\ chan' = [chan EXCEPT ![r] = Append(@, f)]
    /\ written' = [written EXCEPT ![r] = Append(@, f)]

\* Mutant of WorkerPutError: the exception is not caught per item; it
\* leaves the loop and the worker task ends.
WorkerErrorEscapes ==
    /\ workerPc = "except"
    /\ pendingError' = "none"
    /\ workerPc' = "cancelled"
    /\ UNCHANGED <<driverVars, abort_requested, serverUp, request_queue,
                   gatewayVars, abort_event, chan, written, workerItem,
                   current_abort_event, abortedAtDequeue, cancelRequested,
                   stopPc>>
    /\ UNCHANGED decoderVars

\* API.worker, except clause: `await response_queue.put(f"data: {...}")`.
\* The event is not consulted on this path.
WorkerPutError ==
    /\ workerPc = "except"
    /\ Put(workerItem, ErrorFrame(pendingError))
    /\ pendingError' = "none"
    /\ workerPc' = "finally"
    /\ UNCHANGED <<driverVars, abort_requested, serverUp, request_queue,
                   gatewayVars, abort_event, workerItem, current_abort_event,
                   abortedAtDequeue, cancelRequested, stopPc>>
    /\ UNCHANGED decoderVars

\* Mutant of WorkerFinally: the sentinel is not written.
WorkerFinallyWithoutSentinel ==
    /\ workerPc = "finally"
    /\ current_abort_event' = 0
    /\ workerItem' = 0
    /\ workerPc' = "get"
    /\ UNCHANGED <<driverVars, abort_requested, serverUp, request_queue,
                   gatewayVars, abort_event, chan, written, pendingError,
                   abortedAtDequeue, cancelRequested, stopPc>>
    /\ UNCHANGED decoderVars

\* API.worker, finally clause: current_abort_event = None, then
\* `await response_queue.put(None)`; the loop goes back to get().
WorkerFinally ==
    /\ workerPc = "finally"
    /\ current_abort_event' = 0
    /\ Put(workerItem, NoneSentinel)
    /\ workerItem' = 0
    /\ workerPc' = "get"
    /\ UNCHANGED <<driverVars, abort_requested, serverUp, request_queue,
                   gatewayVars, abort_event, pendingError, abortedAtDequeue,
                   cancelRequested, stopPc>>
    /\ UNCHANGED decoderVars

\* Mutant of WorkerCancelled: the CancelledError is caught and the loop
\* goes on.
WorkerSwallowsCancel ==
    /\ workerPc = "get"
    /\ cancelRequested
    /\ cancelRequested' = FALSE
    /\ UNCHANGED <<driverVars, abort_requested, serverUp, request_queue,
                   gatewayVars, abort_event, chan, written, workerVars, stopPc>>
    /\ UNCHANGED decoderVars

\* API.worker: the CancelledError requested by API.stop is raised at
\* `await self.request_queue.get()`; the outer except re-raises it and the
\* task ends cancelled.  Items still queued stay in the queue.
WorkerCancelled ==
    /\ workerPc = "get"
    /\ cancelRequested
    /\ workerPc' = "cancelled"
    /\ UNCHANGED <<driverVars, abort_requested, serverUp, request_queue,
                   gatewayVars, abort_event, chan, written, workerItem,
                   current_abort_event, pendingError, abortedAtDequeue,
                   cancelRequested, stopPc>>
    /\ UNCHANGED decoderVars

\* ------------------------------------------------------------------ Next
Next ==
    \/ StartServices
    \/ HandleCrash
    \/ StopServices
    \/ StopReturn
    \/ ServerExit
    \/ DriverClose
    \/ \E r \in Requests, s \in BOOLEAN : Submit(r, s)
    \/ \E r \in Requests : ClientDisconnect(r)
    \/ \E r \in Requests : RelayCheck(r)
    \/ \E r \in Requests : RelayGet(r)
    \/ \E r \in Requests : RelayTimeout(r)
    \/ \E r \in Requests : RelayCancelled(r)
    \/ \E r \in Requests : DrainGet(r)
    \/ \E r \in Requests : DrainCancelled(r)
    \/ WorkerDequeue
    \/ WorkerPutError
    \/ WorkerFinally
    \/ WorkerCancelled

Spec == Init /\ [][Next]_vars

\* The event loop runs every task that is ready: a worker that can take its
\* next step takes it, and API.stop resumes once the worker task is done.
FairSpec ==
    /\ Spec
    /\ WF_vars(WorkerDequeue)
    /\ WF_vars(WorkerPutError)
    /\ WF_vars(WorkerFinally)
    /\ WF_vars(WorkerCancelled)
    /\ WF_vars(StopReturn)

\* One iteration of the relay loop is a step the event loop always takes:
\* is_disconnected() returns, and wait_for returns a chunk or times out after
\* 0.5 s.  Cancellation of the response task is left to the server.
RelayStep(r) == RelayCheck(r) \/ RelayGet(r) \/ RelayTimeout(r)

RelayFairSpec ==
    /\ FairSpec
    /\ \A r \in Requests : WF_vars(RelayStep(r))

\* ------------------------------------------------------------------ decoder
\* DeepSeekDriver._process_chunk applied to the backend's patch stream of
\* one session.  A network chunk carries one data line; the loop over the
\* operations of a batch frame is taken one operation at a time, and
\* nothing else runs between its steps (_process_chunk has no await before
\* its final queue.put).  Text is a sequence of pieces; every piece names
\* the operation it came from, so that an emitted piece can be traced back.

\* Fragment descriptors the backend sends in one session.
MaxFragments == 2

\* Operations in one batch frame.
MaxOps == 2

\* Descriptors in one fragments-append operation.
MaxDescriptors == 2

FragmentTypes == {"THINK", "RESPONSE", "SEARCH"}

StatusValues == {"WIP", "FINISHED", "CONTENT_FILTER"}

\* Indexes a content path can name: int(parts[...]) may be negative and may
\* be past the end of the list.
Indexes == (-1)..MaxFragments

\* The markers the decoder writes into content.
OpenMarker == [src |-> "marker", tag |-> "<think>", index |-> 0]

CloseMarker == [src |-> "marker", tag |-> "</think>", index |-> 0]

\* frag["content"] of a descriptor of the given type.
InlineText(type) == [src |-> "inline", tag |-> type, index |-> 0]

\* str(item_v) of a content update for fragments/<index>/content, where
\* frag_type is the entry the index selected in fragment_types_list.
IndexedText(index, frag_type) ==
    [src |-> "indexed", tag |-> frag_type, index |-> index]

\* v of a path-less frame whose v is a string.
StringText == [src |-> "string", tag |-> "", index |-> 0]

\* A fragment descriptor: {"type": ..., "content": ...}; has_content is
\* whether it has a non-empty "content".
Descriptors == [type : FragmentTypes, has_content : BOOLEAN]

\* The operations of the patch stream, as the decoder tells them apart.
StatusOp(v) ==
    [p |-> "status", status |-> v, fragments |-> <<>>, index |-> 0]

AppendOp(frags) ==
    [p |-> "fragments", status |-> "", fragments |-> frags, index |-> 0]

ContentOp(i) ==
    [p |-> "content", status |-> "", fragments |-> <<>>, index |-> i]

FragmentStatusOp(i) ==
    [p |-> "fragment_status", status |-> "", fragments |-> <<>>, index |-> i]

Ops ==
    {StatusOp(v) : v \in StatusValues}
    \cup {AppendOp(frags) :
            frags \in UNION {[1..n -> Descriptors] : n \in 1..MaxDescriptors}}
    \cup {ContentOp(i) : i \in Indexes}
    \cup {FragmentStatusOp(0)}

\* The locals and attributes one data line works on.
LineState(list, thinking, text, fr, stop) ==
    [list |-> list, thinking |-> thinking, content |-> text,
     finish_reason |-> fr, stop |-> stop]

\* "Close think tag if open": if thinking_active, add "</think>" when
\* send_deepthink is on, and clear thinking_active.
CloseThinking(st, send) ==
    IF st.thinking
    THEN [st EXCEPT !.content = IF send THEN Append(@, CloseMarker) ELSE @,
                    !.thinking = FALSE]
    ELSE st

\* Mutant of ContentFilterStop: the loop over the operations goes on.
ContentFilterWithoutBreak(st, send) ==
    CloseThinking([st EXCEPT !.finish_reason = "stop"], send)

\* status CONTENT_FILTER with anti_censorship on: finish_reason "stop",
\* close the thinking segment, leave the loop over the operations.
ContentFilterStop(st, send) ==
    [CloseThinking([st EXCEPT !.finish_reason = "stop"], send)
        EXCEPT !.stop = TRUE]

\* A status operation: FINISHED gives finish_reason "stop" and closes the
\* thinking segment; any other value does nothing.
StatusUpdate(st, v, send) ==
    IF v = "FINISHED"
    THEN CloseThinking([st EXCEPT !.finish_reason = "stop"], send)
    ELSE st

\* Mutant of AppendFragment: a SEARCH descriptor is not registered.
AppendFragmentSkipsSearch(st, frag, send) ==
    IF frag.type = "SEARCH"
    THEN st
    ELSE LET s1 == [st EXCEPT !.list = Append(@, frag.type)]
             s2 == IF frag.type = "THINK"
                   THEN [s1 EXCEPT
                           !.content = IF send THEN Append(@, OpenMarker) ELSE @,
                           !.thinking = TRUE]
                   ELSE CloseThinking(s1, send)
         IN IF frag.has_content /\ (frag.type # "THINK" \/ send)
            THEN [s2 EXCEPT !.content = Append(@, InlineText(frag.type))]
            ELSE s2

\* One descriptor of a fragments append: register its type; THINK opens a
\* thinking segment, RESPONSE closes an open one; then its inline content:
\* THINK only when send_deepthink is on, SEARCH never, any other type always.
AppendFragment(st, frag, send) ==
    LET s1 == [st EXCEPT !.list = Append(@, frag.type)]
        s2 == IF frag.type = "THINK"
              THEN [s1 EXCEPT
                      !.content = IF send THEN Append(@, OpenMarker) ELSE @,
                      !.thinking = TRUE]
              ELSE s1
        s3 == IF frag.type = "RESPONSE" THEN CloseThinking(s2, send) ELSE s2
    IN IF frag.has_content
       THEN IF frag.type = "THINK"
            THEN IF send
                 THEN [s3 EXCEPT !.content = Append(@, InlineText(frag.type))]
                 ELSE s3
            ELSE IF frag.type = "SEARCH"
                 THEN s3
                 ELSE [s3 EXCEPT !.content = Append(@, InlineText(frag.type))]
       ELSE s3

RECURSIVE FragmentsAppend(_, _, _)
\* `for frag in fragments`.
FragmentsAppend(st, frags, send) ==
    IF frags = <<>>
    THEN st
    ELSE FragmentsAppend(AppendFragment(st, Head(frags), send), Tail(frags), send)

\* Python's list[index] under the guard `index < len(list)`: "drop" when
\* the guard fails or the subscript raises IndexError, else the entry; a
\* negative index counts from the end.
ListEntry(list, index) ==
    IF index >= Len(list) \/ index < 0 - Len(list)
    THEN "drop"
    ELSE IF index >= 0 THEN list[index + 1] ELSE list[Len(list) + index + 1]

\* A content update for fragments/<index>/content.
ContentUpdate(st, index, send) ==
    LET frag_type == ListEntry(st.list, index) IN
      IF frag_type = "drop" THEN st
      ELSE IF frag_type = "THINK"
           THEN IF send
                THEN [st EXCEPT !.content = Append(@, IndexedText(index, frag_type))]
                ELSE st
           ELSE IF frag_type = "SEARCH"
                THEN st
                ELSE [st EXCEPT !.content = Append(@, IndexedText(index, frag_type))]

\* The body of `for item in ops`.
ProcessItem(st, item, anti, send) ==
    IF anti /\ item.p = "status" /\ item.status = "CONTENT_FILTER"
    THEN ContentFilterStop(st, send)
    ELSE IF item.p = "status" THEN StatusUpdate(st, item.status, send)
    ELSE IF item.p = "fragments" THEN FragmentsAppend(st, item.fragments, send)
    ELSE IF item.p = "content" THEN ContentUpdate(st, item.index, send)
    ELSE st

\* Mutant of DirectContent: the string is passed on whatever the state.
DirectContentAlways(st, send) ==
    [st EXCEPT !.content = <<StringText>>]

\* A path-less frame whose v is a string: content = v, unless a thinking
\* segment is open and send_deepthink is off.
DirectContent(st, send) ==
    IF st.thinking
    THEN IF send THEN [st EXCEPT !.content = <<StringText>>] ELSE st
    ELSE [st EXCEPT !.content = <<StringText>>]

\* Mutant of EmitChunk: the chunk is built and put whatever it holds.
EmitChunkAlways(text, fr) ==
    <<ChunkFrame(text, fr)>>

\* `if content or finish_reason`: the chunks one data line puts on the queue.
EmitChunk(text, fr) ==
    IF text # <<>> \/ fr # "null" THEN <<ChunkFrame(text, fr)>> ELSE <<>>

RECURSIVE DescriptorTypes(_)
\* The declared types of a list of descriptors.
DescriptorTypes(frags) ==
    IF frags = <<>> THEN <<>>
    ELSE <<Head(frags).type>> \o DescriptorTypes(Tail(frags))

\* The attributes and locals as one record, and back.
Line ==
    LineState(fragment_types_list, thinking_active, content,
              data_finish_reason, should_stop_processing)

SetLine(st) ==
    /\ fragment_types_list' = st.list
    /\ thinking_active' = st.thinking
    /\ content' = st.content
    /\ data_finish_reason' = st.finish_reason
    /\ should_stop_processing' = st.stop

\* A data line starts: content = "", finish_reason = None,
\* should_stop_processing = False.
FreshLine ==
    LineState(fragment_types_list, thinking_active, <<>>, "null", FALSE)

\* The backend sends no more than MaxFragments descriptors in a session.
WithinSession(item) ==
    Len(descriptors_seen) + Len(item.fragments) <= MaxFragments

\* A batch frame arrives (p absent, or p "response" with o "BATCH", and v a
\* list): ops = v.
BeginBatch ==
    /\ decoderPc = "idle"
    /\ decoderPc' = "ops"
    /\ SetLine(FreshLine)
    /\ frame_form' = "batch"
    /\ frame_ops' = <<>>
    /\ list_before' = fragment_types_list
    /\ thinking_before' = thinking_active
    /\ emitted' = <<>>
    /\ UNCHANGED <<settingVars, descriptors_seen, bridgeVars>>

\* The next operation of the batch.  After the break of the content-filter
\* branch the remaining operations of the batch are not looked at.
BatchItem(item) ==
    /\ decoderPc = "ops"
    /\ Len(frame_ops) < MaxOps
    /\ WithinSession(item)
    /\ SetLine(IF should_stop_processing
               THEN Line
               ELSE ProcessItem(Line, item, anti_censorship, send_deepthink))
    /\ frame_ops' = Append(frame_ops, item)
    /\ descriptors_seen' = descriptors_seen \o DescriptorTypes(item.fragments)
    /\ UNCHANGED <<settingVars, decoderPc, frame_form, list_before,
                   thinking_before, emitted, bridgeVars>>

\* The batch has no more operations: the chunk is built and put.
EndBatch ==
    /\ decoderPc = "ops"
    /\ decoderPc' = "idle"
    /\ emitted' = EmitChunk(content, data_finish_reason)
    /\ UNCHANGED <<decoderState, settingVars, content, data_finish_reason,
                   should_stop_processing, frame_form, frame_ops, list_before,
                   thinking_before, descriptors_seen, bridgeVars>>

\* A frame with a path of its own: ops = [{"p": p, "o": o, "v": v}].
PathFrame(item) ==
    /\ decoderPc = "idle"
    /\ WithinSession(item)
    /\ LET st == ProcessItem(FreshLine, item, anti_censorship, send_deepthink)
       IN /\ SetLine(st)
          /\ emitted' = EmitChunk(st.content, st.finish_reason)
    /\ frame_form' = "path"
    /\ frame_ops' = <<item>>
    /\ list_before' = fragment_types_list
    /\ thinking_before' = thinking_active
    /\ descriptors_seen' = descriptors_seen \o DescriptorTypes(item.fragments)
    /\ UNCHANGED <<settingVars, decoderPc, bridgeVars>>

\* A path-less frame whose v is a string.
StringFrame ==
    /\ decoderPc = "idle"
    /\ LET st == DirectContent(FreshLine, send_deepthink)
       IN /\ SetLine(st)
          /\ emitted' = EmitChunk(st.content, st.finish_reason)
    /\ frame_form' = "string"
    /\ frame_ops' = <<>>
    /\ list_before' = fragment_types_list
    /\ thinking_before' = thinking_active
    /\ UNCHANGED <<settingVars, decoderPc, descriptors_seen, bridgeVars>>

\* The first generate_response call has reset the decoder attributes
\* (fragment_types_list = [], thinking_active = False) and its handle_route
\* reads the backend response; the two settings are whatever the user chose.
DecoderInit ==
    /\ BridgeInit
    /\ fragment_types_list = <<>>
    /\ thinking_active = FALSE
    /\ anti_censorship \in BOOLEAN
    /\ send_deepthink \in BOOLEAN
    /\ decoderPc = "idle"
    /\ content = <<>>
    /\ data_finish_reason = "null"
    /\ should_stop_processing = FALSE
    /\ frame_form = "none"
    /\ frame_ops = <<>>
    /\ list_before = <<>>
    /\ thinking_before = FALSE
    /\ emitted = <<>>
    /\ descriptors_seen = <<>>
    /\ session = 1
    /\ consumer = "iterating"
    /\ handler = [s \in Sessions |-> IF s = 1 THEN "streaming" ELSE "none"]
    /\ frame_session = 1
    /\ own_list = <<>>
    /\ own_thinking = FALSE
    /\ own_emitted = <<>>
    /\ NoStream
    /\ NoTap
    /\ NoPrompt

\* What the decoder alone leaves as it is.
aroundDecoder == <<sessionVars, streamVars, tapVars, promptVars>>

DecoderNext ==
    \/ BeginBatch /\ UNCHANGED aroundDecoder
    \/ \E item \in Ops : BatchItem(item) /\ UNCHANGED aroundDecoder
    \/ EndBatch /\ UNCHANGED aroundDecoder
    \/ \E item \in Ops : PathFrame(item) /\ UNCHANGED aroundDecoder
    \/ StringFrame /\ UNCHANGED aroundDecoder

\* The decoder on the patch stream of one session.
DecoderSpec == DecoderInit /\ [][DecoderNext]_vars

\* ------------------------------------------------------------------ sessions
\* DeepSeekDriver.generate_response called by a caller that iterates the
\* generator and may stop iterating it (what API.worker does at its abort
\* check), and the handle_route closures of the calls.  Each closure puts
\* on the response_queue of its own call and decodes with the attributes
\* of the one driver.  The frames here are those decoded in one step.

\* The operations fed here: those with at most one descriptor.
SessionOps == {item \in Ops : Len(item.fragments) <= 1}

\* The caller is not inside an earlier generator, and calls
\* generate_response: a new queue, fragment_types_list = [],
\* thinking_active = False.
GenerateResponse ==
    /\ decoderPc = "idle"
    /\ session < MaxSessions
    /\ consumer # "iterating"
    /\ session' = session + 1
    /\ consumer' = "iterating"
    /\ fragment_types_list' = <<>>
    /\ thinking_active' = FALSE
    /\ own_list' = <<>>
    /\ own_thinking' = FALSE
    /\ own_emitted' = <<>>
    /\ UNCHANGED <<settingVars, lineVars, frameVars, handler, frame_session,
                   bridgeVars>>

\* The UI interaction of the call made the page post its request, and the
\* route handler of the call took it: handle_route starts to read the
\* backend response.
HandleRoute(s) ==
    /\ s = session
    /\ consumer = "iterating"
    /\ handler[s] = "none"
    /\ handler' = [handler EXCEPT ![s] = "streaming"]
    /\ UNCHANGED <<decoderState, settingVars, lineVars, frameVars, session,
                   consumer, frame_session, own_list, own_thinking,
                   own_emitted, bridgeVars>>

\* What the frame does to the decoder state the latest call would have if
\* only the frames of its own backend response were decoded.
OwnFrame(s, st) ==
    IF s = session
    THEN /\ own_list' = st.list
         /\ own_thinking' = st.thinking
         /\ own_emitted' = EmitChunk(st.content, st.finish_reason)
    ELSE UNCHANGED <<own_list, own_thinking, own_emitted>>

\* handle_route of call s: `await self._process_chunk(chunk,
\* response_queue)` for a frame with a path of its own.
SessionPathFrame(s, item) ==
    /\ handler[s] = "streaming"
    /\ PathFrame(item)
    /\ frame_session' = s
    /\ OwnFrame(s, ProcessItem(LineState(own_list, own_thinking, <<>>, "null",
                                         FALSE),
                               item, anti_censorship, send_deepthink))
    /\ UNCHANGED <<session, consumer, handler>>

\* The same for a path-less frame whose v is a string.
SessionStringFrame(s) ==
    /\ handler[s] = "streaming"
    /\ StringFrame
    /\ frame_session' = s
    /\ OwnFrame(s, DirectContent(LineState(own_list, own_thinking, <<>>,
                                           "null", FALSE),
                                 send_deepthink))
    /\ UNCHANGED <<session, consumer, handler>>

\* handle_route of call s: the backend response ended; the route is
\* fulfilled and None is put on the queue of the call.
HandlerEnd(s) ==
    /\ handler[s] = "streaming"
    /\ handler' = [handler EXCEPT ![s] = "ended"]
    /\ UNCHANGED <<decoderState, settingVars, lineVars, frameVars, session,
                   consumer, frame_session, own_list, own_thinking,
                   own_emitted, bridgeVars>>

\* The caller got a chunk of the latest call from the generator and stops
\* iterating it (`if abort_event.is_set(): break` in API.worker): the
\* generator stays suspended at its yield, handle_route goes on.
ConsumerAbandon ==
    /\ consumer = "iterating"
    /\ handler[session] = "streaming"
    /\ frame_session = session
    /\ emitted # <<>>
    /\ consumer' = "abandoned"
    /\ UNCHANGED <<decoderState, settingVars, lineVars, frameVars, session,
                   handler, frame_session, own_list, own_thinking,
                   own_emitted, bridgeVars>>

\* The generator read None from its queue: it leaves its loop and ends.
GeneratorEnd ==
    /\ consumer = "iterating"
    /\ session >= 1
    /\ handler[session] = "ended"
    /\ consumer' = "finished"
    /\ UNCHANGED <<decoderState, settingVars, lineVars, frameVars, session,
                   handler, frame_session, own_list, own_thinking,
                   own_emitted, bridgeVars>>

\* A started driver on which generate_response has not been called; the
\* two settings are whatever the user chose.
SessionInit ==
    /\ BridgeInit
    /\ fragment_types_list = <<>>
    /\ thinking_active = FALSE
    /\ anti_censorship \in BOOLEAN
    /\ send_deepthink \in BOOLEAN
    /\ decoderPc = "idle"
    /\ content = <<>>
    /\ data_finish_reason = "null"
    /\ should_stop_processing = FALSE
    /\ frame_form = "none"
    /\ frame_ops = <<>>
    /\ list_before = <<>>
    /\ thinking_before = FALSE
    /\ emitted = <<>>
    /\ descriptors_seen = <<>>
    /\ NoSession
    /\ NoStream
    /\ NoTap
    /\ NoPrompt

\* What the calls and their handlers leave as it is.
aroundSessions == <<streamVars, tapVars, promptVars>>

SessionNext ==
    \/ GenerateResponse /\ UNCHANGED aroundSessions
    \/ \E s \in Sessions : HandleRoute(s) /\ UNCHANGED aroundSessions
    \/ \E s \in Sessions, item \in SessionOps :
          SessionPathFrame(s, item) /\ UNCHANGED aroundSessions
    \/ \E s \in Sessions : SessionStringFrame(s) /\ UNCHANGED aroundSessions
    \/ \E s \in Sessions : HandlerEnd(s) /\ UNCHANGED aroundSessions
    \/ ConsumerAbandon /\ UNCHANGED aroundSessions
    \/ GeneratorEnd /\ UNCHANGED aroundSessions

\* The driver under a caller of generate_response.
SessionSpec == SessionInit /\ [][SessionNext]_vars

\* ------------------------------------------------------------------ stream
\* handle_route feeds the bytes of one backend response to _process_chunk,
\* one network chunk per call: `text.split("\n")`, then the lines one by
\* one.  Nothing is kept from one call to the next, so a data line that
\* straddles two chunks is seen as two lines.  An exception other than
\* json.JSONDecodeError is caught outside the loop over the lines and ends
\* the call.  A line is a sequence of tokens; the frames here are those
\* decoded in one step.

\* Lines in one backend response.
MaxLines == 3

\* A token of a line; item is the JSON object of a "body" token.
Token(t, item) == [tok |-> t, item |-> item]

NoItem == [p |-> "", status |-> "", fragments |-> <<>>, index |-> 0]

\* The text of the data line of a frame with a path of its own:
\* `data: {...}`.
DataLine(item) ==
    <<Token("data: ", NoItem), Token("{", NoItem), Token("body", item),
      Token("}", NoItem)>>

\* Where a line can be cut by the end of a network chunk so that both
\* pieces are non-empty.
SplitPoints == 1..3

\* line.startswith("data: ")
StartsWithData(line) == Len(line) >= 1 /\ line[1].tok = "data: "

\* data_str = line[6:]
DataStr(line) == Tail(line)

\* json.loads(data_str): the object, or JSONDecodeError for a text that is
\* not a complete JSON value.
JsonLoads(data_str) ==
    IF /\ Len(data_str) = 3
       /\ data_str[1].tok = "{"
       /\ data_str[2].tok = "body"
       /\ data_str[3].tok = "}"
    THEN [error |-> FALSE, data |-> data_str[2].item]
    ELSE [error |-> TRUE, data |-> NoItem]

\* A line that gives no frame: it does not start with "data: " ("ignored"),
\* json.loads raised JSONDecodeError ("malformed"), or another exception
\* was raised before any operation ran ("raised").
NoFrame(form) ==
    /\ SetLine(FreshLine)
    /\ frame_form' = form
    /\ frame_ops' = <<>>
    /\ list_before' = fragment_types_list
    /\ thinking_before' = thinking_active
    /\ emitted' = <<>>
    /\ out' = out
    /\ UNCHANGED <<settingVars, decoderPc, descriptors_seen, bridgeVars>>

\* One iteration of `for line in lines`; after an exception left the loop
\* the remaining lines of the chunk are not looked at.
ProcessLine(line) ==
    IF raised
    THEN UNCHANGED <<decoderState, settingVars, lineVars, frameVars, out,
                     bridgeVars>>
    ELSE IF ~StartsWithData(line)
         THEN NoFrame("ignored")
         ELSE IF JsonLoads(DataStr(line)).error
              THEN NoFrame("malformed")
              ELSE /\ PathFrame(JsonLoads(DataStr(line)).data)
                   /\ out' = out \o emitted'

\* The state the whole, well-formed lines fed so far give.
RefLine == LineState(own_list, own_thinking, <<>>, "null", FALSE)

\* The line is decoded by the reference.
RefFrame(item) ==
    /\ OwnFrame(session,
                ProcessItem(RefLine, item, anti_censorship, send_deepthink))
    /\ ref_out' = ref_out \o own_emitted'

\* The line is not decoded by the reference.
RefSkip == UNCHANGED <<own_list, own_thinking, own_emitted, ref_out>>

\* The response has a next line, and it can be fed.
CanFeed ==
    /\ session >= 1
    /\ handler[session] = "streaming"
    /\ frame_session = session
    /\ decoderPc = "idle"
    /\ straddling = <<>>
    /\ lines_fed < MaxLines

\* No more than MaxFragments descriptors in the response.
WithinStream(item) ==
    /\ WithinSession(item)
    /\ Len(own_list) + Len(item.fragments) <= MaxFragments

\* The next data line of the response is whole in the current chunk.
WholeLine(item) ==
    /\ CanFeed
    /\ WithinStream(item)
    /\ ProcessLine(DataLine(item))
    /\ RefFrame(item)
    /\ lines_fed' = lines_fed + 1
    /\ UNCHANGED <<raised, straddling, split_seen, failed_seen, session,
                   consumer, handler, frame_session>>

\* The current chunk ends inside the next data line: its head is the last
\* line of this chunk.
SplitHead(item, k) ==
    /\ CanFeed
    /\ WithinStream(item)
    /\ ProcessLine(SubSeq(DataLine(item), 1, k))
    /\ raised' = FALSE
    /\ straddling' = <<[item |-> item, at |-> k]>>
    /\ split_seen' = TRUE
    /\ lines_fed' = lines_fed + 1
    /\ RefSkip
    /\ UNCHANGED <<failed_seen, session, consumer, handler, frame_session>>

\* The rest of that data line is the first line of the next chunk.
SplitTail ==
    /\ straddling # <<>>
    /\ LET item == straddling[1].item
           k == straddling[1].at
       IN /\ ProcessLine(SubSeq(DataLine(item), k + 1, Len(DataLine(item))))
          /\ RefFrame(item)
    /\ straddling' = <<>>
    /\ UNCHANGED <<raised, split_seen, failed_seen, lines_fed, session,
                   consumer, handler, frame_session>>

\* A data line that is not JSON (`data: {`): JSONDecodeError, the line is
\* skipped.
MalformedLine ==
    /\ CanFeed
    /\ ProcessLine(<<Token("data: ", NoItem), Token("{", NoItem)>>)
    /\ RefSkip
    /\ failed_seen' = TRUE
    /\ lines_fed' = lines_fed + 1
    /\ UNCHANGED <<raised, straddling, split_seen, session, consumer, handler,
                   frame_session>>

\* A data line whose JSON value is not an object (`data: 5`): `"v" in data`
\* raises TypeError, which leaves the loop over the lines.
RaisingLine ==
    /\ CanFeed
    /\ IF raised
       THEN UNCHANGED <<decoderState, settingVars, lineVars, frameVars, out,
                        bridgeVars, raised>>
       ELSE /\ NoFrame("raised")
            /\ raised' = TRUE
    /\ RefSkip
    /\ failed_seen' = TRUE
    /\ lines_fed' = lines_fed + 1
    /\ UNCHANGED <<straddling, split_seen, session, consumer, handler,
                   frame_session>>

\* `content += frag["content"]` is reached for a descriptor of this type:
\* THINK only with send_deepthink on, SEARCH never, any other type always.
AddsInlineContent(type, send) ==
    IF type = "THINK" THEN send ELSE type # "SEARCH"

\* A fragments append whose descriptor has a "content" that is not a
\* string (`{"type": T, "content": 5}`): the type is registered and the
\* thinking segment opened or closed, then `content += frag["content"]`
\* raises TypeError where it is reached; the exception leaves the loop over
\* the lines and no chunk is put.  Where it is not reached the frame is
\* decoded as one without inline content.
RaisingAppend(type) ==
    /\ CanFeed
    /\ WithinStream(AppendOp(<<[type |-> type, has_content |-> FALSE]>>))
    /\ LET item == AppendOp(<<[type |-> type, has_content |-> FALSE]>>)
           st == ProcessItem(FreshLine, item, anti_censorship, send_deepthink)
       IN IF raised
          THEN /\ UNCHANGED <<decoderState, settingVars, lineVars, frameVars,
                              out, bridgeVars, raised, failed_seen>>
               /\ RefFrame(item)
          ELSE IF AddsInlineContent(type, send_deepthink)
               THEN /\ SetLine([st EXCEPT !.content = <<>>,
                                          !.finish_reason = "null"])
                    /\ frame_form' = "raised"
                    /\ frame_ops' = <<item>>
                    /\ list_before' = fragment_types_list
                    /\ thinking_before' = thinking_active
                    /\ emitted' = <<>>
                    /\ descriptors_seen' = Append(descriptors_seen, type)
                    /\ out' = out
                    /\ raised' = TRUE
                    /\ failed_seen' = TRUE
                    /\ RefSkip
                    /\ UNCHANGED <<settingVars, decoderPc, bridgeVars>>
               ELSE /\ PathFrame(item)
                    /\ out' = out \o emitted'
                    /\ RefFrame(item)
                    /\ UNCHANGED <<raised, failed_seen>>
    /\ lines_fed' = lines_fed + 1
    /\ UNCHANGED <<straddling, split_seen, session, consumer, handler,
                   frame_session>>

\* The _process_chunk call that an exception ended has returned; handle_route
\* reads the next chunk.
NextChunk ==
    /\ raised
    /\ raised' = FALSE
    /\ UNCHANGED <<decoderState, settingVars, lineVars, frameVars,
                   sessionVars, out, ref_out, straddling, split_seen,
                   failed_seen, lines_fed, bridgeVars>>

\* The backend response ended.
StreamEnd ==
    /\ session >= 1
    /\ straddling = <<>>
    /\ HandlerEnd(session)
    /\ UNCHANGED streamVars

\* What the feeding of a response leaves as it is.
aroundStream == <<tapVars, promptVars>>

StreamNext ==
    \/ \E item \in SessionOps : WholeLine(item) /\ UNCHANGED aroundStream
    \/ \E item \in SessionOps, k \in SplitPoints :
          SplitHead(item, k) /\ UNCHANGED aroundStream
    \/ SplitTail /\ UNCHANGED aroundStream
    \/ MalformedLine /\ UNCHANGED aroundStream
    \/ RaisingLine /\ UNCHANGED aroundStream
    \/ \E type \in FragmentTypes : RaisingAppend(type) /\ UNCHANGED aroundStream
    \/ NextChunk /\ UNCHANGED aroundStream
    \/ StreamEnd /\ UNCHANGED aroundStream

\* The decoder on the bytes of one backend response.
StreamSpec == DecoderInit /\ [][StreamNext]_vars

\* ------------------------------------------------------------------ taps
\* DeepSeekDriver.generate_response and the page routes, under a caller
\* that iterates the generator as API.worker does: it forwards each chunk,
\* leaves the loop when the abort event is set, and then puts None on the
\* channel and takes the next item.  Leaving `async for` does not close the
\* generator: it stays suspended at its yield until the event loop's
\* finalizer runs aclose() on it in a task of its own, and only then does
\* its finally clause unroute.  page.unroute(url) removes every handler
\* routed for the URL pattern.  Every await is a step.

\* The pattern whose route call or unroute call the generator is at.
PatternAt(pc) ==
    IF pc \in {"route_completion", "unroute_completion"}
    THEN "completion"
    ELSE "regenerate"

\* The call s has a handler routed for the pattern.
Routed(s, p) == \E i \in 1..Len(routes[p]) : routes[p][i] = s

\* The caller has put None for the call before (if any) and calls
\* generate_response; the first __anext__ runs the body up to its first
\* await, page.route.
CallGenerateResponse ==
    /\ session = 0 \/ session \in sentinel_put
    /\ GenerateResponse
    /\ genPc' = [genPc EXCEPT ![session + 1] = "route_completion"]
    /\ UNCHANGED <<routes, sentinel_put, missed>>

\* `await self.page.route(pattern, handle_route)`: the newest handler is
\* the first to be offered a request.
PageRoute(s) ==
    /\ genPc[s] \in {"route_completion", "route_regenerate"}
    /\ routes' = [routes EXCEPT ![PatternAt(genPc[s])] = <<s>> \o @]
    /\ genPc' = [genPc EXCEPT ![s] = IF @ = "route_completion"
                                     THEN "route_regenerate"
                                     ELSE "interact"]
    /\ UNCHANGED <<sentinel_put, missed, decoderState, settingVars, lineVars,
                   frameVars, sessionVars, bridgeVars>>

\* The UI interaction of the call makes the page post its backend request
\* (chat/completion after New Chat, chat/regenerate after the regenerate
\* button): the first handler routed for the pattern takes it, and if
\* there is none the request goes out untapped.  The generator then waits
\* on its queue.
TriggerUI(s, p) ==
    /\ genPc[s] = "interact"
    /\ genPc' = [genPc EXCEPT ![s] = "get"]
    /\ IF routes[p] # <<>>
       THEN /\ handler' = [handler EXCEPT ![Head(routes[p])] = "streaming"]
            /\ missed' = missed
       ELSE /\ handler' = handler
            /\ missed' = missed \cup {s}
    /\ UNCHANGED <<routes, sentinel_put, decoderState, settingVars, lineVars,
                   frameVars, session, consumer, frame_session, own_list,
                   own_thinking, own_emitted, bridgeVars>>

\* The UI interaction raises: the exception passes through the finally
\* clause of the generator.
TriggerFails(s) ==
    /\ genPc[s] = "interact"
    /\ genPc' = [genPc EXCEPT ![s] = "unroute_completion"]
    /\ UNCHANGED <<routes, sentinel_put, missed, decoderState, settingVars,
                   lineVars, frameVars, sessionVars, bridgeVars>>

\* The handler of the call put a chunk; the generator got it and yields it
\* to the caller.
YieldItem(s) ==
    /\ s = session
    /\ consumer = "iterating"
    /\ genPc[s] = "get"
    /\ handler[s] = "streaming"
    /\ genPc' = [genPc EXCEPT ![s] = "yield"]
    /\ UNCHANGED <<routes, sentinel_put, missed, decoderState, settingVars,
                   lineVars, frameVars, sessionVars, bridgeVars>>

\* The caller forwarded the chunk and asks for the next one.
WorkerForward(s) ==
    /\ s = session
    /\ consumer = "iterating"
    /\ genPc[s] = "yield"
    /\ genPc' = [genPc EXCEPT ![s] = "get"]
    /\ UNCHANGED <<routes, sentinel_put, missed, decoderState, settingVars,
                   lineVars, frameVars, sessionVars, bridgeVars>>

\* `if abort_event.is_set(): break`: the caller drops the generator, which
\* stays suspended at its yield.
WorkerBreak(s) ==
    /\ s = session
    /\ consumer = "iterating"
    /\ genPc[s] = "yield"
    /\ consumer' = "abandoned"
    /\ genPc' = [genPc EXCEPT ![s] = "abandoned"]
    /\ UNCHANGED <<routes, sentinel_put, missed, decoderState, settingVars,
                   lineVars, frameVars, session, handler, frame_session,
                   own_list, own_thinking, own_emitted, bridgeVars>>

\* The backend response of the call ended: its handler put None.
TapHandlerEnd(s) ==
    /\ HandlerEnd(s)
    /\ UNCHANGED tapVars

\* The generator got None: it leaves its loop for the finally clause.
QueueNone(s) ==
    /\ s = session
    /\ consumer = "iterating"
    /\ genPc[s] = "get"
    /\ handler[s] = "ended"
    /\ genPc' = [genPc EXCEPT ![s] = "unroute_completion"]
    /\ UNCHANGED <<routes, sentinel_put, missed, decoderState, settingVars,
                   lineVars, frameVars, sessionVars, bridgeVars>>

\* The finalizer task runs aclose() on a dropped generator: GeneratorExit
\* is raised at its yield and the finally clause starts.
Aclose(s) ==
    /\ genPc[s] = "abandoned"
    /\ genPc' = [genPc EXCEPT ![s] = "unroute_completion"]
    /\ UNCHANGED <<routes, sentinel_put, missed, decoderState, settingVars,
                   lineVars, frameVars, sessionVars, bridgeVars>>

\* `await self.page.unroute(pattern)` in the finally clause: every handler
\* routed for the pattern is removed.
PageUnroute(s) ==
    /\ genPc[s] \in {"unroute_completion", "unroute_regenerate"}
    /\ routes' = [routes EXCEPT ![PatternAt(genPc[s])] = <<>>]
    /\ genPc' = [genPc EXCEPT ![s] = IF @ = "unroute_completion"
                                     THEN "unroute_regenerate"
                                     ELSE "closed"]
    /\ UNCHANGED <<sentinel_put, missed, decoderState, settingVars, lineVars,
                   frameVars, sessionVars, bridgeVars>>

\* The generator the caller iterates has ended (StopAsyncIteration, or the
\* exception of the UI interaction): the caller leaves its loop.
GeneratorReturns ==
    /\ session >= 1
    /\ consumer = "iterating"
    /\ genPc[session] = "closed"
    /\ consumer' = "finished"
    /\ UNCHANGED <<tapVars, decoderState, settingVars, lineVars, frameVars,
                   session, handler, frame_session, own_list, own_thinking,
                   own_emitted, bridgeVars>>

\* The finally clause of the caller: `await response_queue.put(None)`.
WorkerPutsNone ==
    /\ session >= 1
    /\ consumer \in {"abandoned", "finished"}
    /\ session \notin sentinel_put
    /\ sentinel_put' = sentinel_put \cup {session}
    /\ UNCHANGED <<routes, genPc, missed, decoderState, settingVars, lineVars,
                   frameVars, sessionVars, bridgeVars>>

\* What the calls and the routes leave as it is.
aroundTaps == <<streamVars, promptVars>>

TapNext ==
    \/ CallGenerateResponse /\ UNCHANGED aroundTaps
    \/ \E s \in Sessions : PageRoute(s) /\ UNCHANGED aroundTaps
    \/ \E s \in Sessions, p \in Patterns : TriggerUI(s, p) /\ UNCHANGED aroundTaps
    \/ \E s \in Sessions : TriggerFails(s) /\ UNCHANGED aroundTaps
    \/ \E s \in Sessions : YieldItem(s) /\ UNCHANGED aroundTaps
    \/ \E s \in Sessions : WorkerForward(s) /\ UNCHANGED aroundTaps
    \/ \E s \in Sessions : WorkerBreak(s) /\ UNCHANGED aroundTaps
    \/ \E s \in Sessions : TapHandlerEnd(s) /\ UNCHANGED aroundTaps
    \/ \E s \in Sessions : QueueNone(s) /\ UNCHANGED aroundTaps
    \/ \E s \in Sessions : Aclose(s) /\ UNCHANGED aroundTaps
    \/ \E s \in Sessions : PageUnroute(s) /\ UNCHANGED aroundTaps
    \/ GeneratorReturns /\ UNCHANGED aroundTaps
    \/ WorkerPutsNone /\ UNCHANGED aroundTaps

\* The driver's calls and the page routes.
TapSpec == SessionInit /\ [][TapNext]_vars

\* ------------------------------------------------------------------ prompts
\* The UI interaction of generate_response, one call after the other
\* (there is one worker), with the clean_regeneration setting changed by
\* the user at any time and the driver restarted between calls.  The page
\* shows one chat; ui_prompt is the prompt of its last message (0: the chat
\* is empty), which is what the regenerate button regenerates.

\* Distinct formatted prompts.
MaxPrompts == 2

Prompts == 1..MaxPrompts

\* formatted_message = self._format_messages(message); the setting is read
\* once into a local.
FormatMessage(m) ==
    /\ promptPc = "idle"
    /\ formatted_message' = m
    /\ clean_regeneration' = clean_setting
    /\ regenerated' = FALSE
    /\ promptPc' = "check"
    /\ UNCHANGED <<clean_setting, last_message, ui_prompt>>

\* "Check for Clean Regeneration": with the setting on and the cache equal
\* to the formatted message, _click_regenerate is tried; it returns True
\* only when the open chat has a message to regenerate and the button is
\* enabled.
CheckCache(clicked) ==
    /\ promptPc = "check"
    /\ clicked => ui_prompt # 0
    /\ LET tried == clean_regeneration /\ last_message = formatted_message
       IN /\ regenerated' = (tried /\ clicked)
          /\ promptPc' = IF tried /\ clicked THEN "sent" ELSE "new_chat"
    /\ UNCHANGED <<clean_setting, clean_regeneration, last_message,
                   formatted_message, ui_prompt>>

\* _click_new_chat: the chat is cleared when a New Chat button is found.
NewChat(found) ==
    /\ promptPc = "new_chat"
    /\ ui_prompt' = IF found THEN 0 ELSE ui_prompt
    /\ promptPc' = "send"
    /\ UNCHANGED <<clean_setting, clean_regeneration, last_message,
                   formatted_message, regenerated>>

\* _enter_message and _send_message (the send button is clicked when it is
\* found and enabled), then "Update cache": written when the setting was
\* on, whether or not the message was sent.
SendMessage(clicked) ==
    /\ promptPc = "send"
    /\ ui_prompt' = IF clicked THEN formatted_message ELSE ui_prompt
    /\ last_message' = IF clean_regeneration
                       THEN formatted_message
                       ELSE last_message
    /\ promptPc' = "sent"
    /\ UNCHANGED <<clean_setting, clean_regeneration, formatted_message,
                   regenerated>>

\* The generator of the call has ended.
CallDone ==
    /\ promptPc = "sent"
    /\ promptPc' = "idle"
    /\ UNCHANGED <<clean_setting, clean_regeneration, last_message,
                   formatted_message, regenerated, ui_prompt>>

\* The user switches Clean Regeneration in the settings.
SetCleanRegeneration(b) ==
    /\ clean_setting # b
    /\ clean_setting' = b
    /\ UNCHANGED <<clean_regeneration, last_message, formatted_message,
                   regenerated, ui_prompt, promptPc>>

\* close() and start(): a new page, and last_message.txt is removed.
DriverRestart ==
    /\ promptPc = "idle"
    /\ last_message' = 0
    /\ ui_prompt' = 0
    /\ UNCHANGED <<clean_setting, clean_regeneration, formatted_message,
                   regenerated, promptPc>>

\* What the UI interaction leaves as it is.
aroundPrompts ==
    <<decoderState, settingVars, lineVars, frameVars, sessionVars, streamVars,
      tapVars, bridgeVars>>

PromptNext ==
    \/ \E m \in Prompts : FormatMessage(m) /\ UNCHANGED aroundPrompts
    \/ \E clicked \in BOOLEAN : CheckCache(clicked) /\ UNCHANGED aroundPrompts
    \/ \E found \in BOOLEAN : NewChat(found) /\ UNCHANGED aroundPrompts
    \/ \E clicked \in BOOLEAN : SendMessage(clicked) /\ UNCHANGED aroundPrompts
    \/ CallDone /\ UNCHANGED aroundPrompts
    \/ \E b \in BOOLEAN : SetCleanRegeneration(b) /\ UNCHANGED aroundPrompts
    \/ DriverRestart /\ UNCHANGED aroundPrompts

\* The calls of a started driver and the user's settings.
PromptSpec == Init /\ [][PromptNext]_vars

\* ------------------------------------------------------------------ claims
\* The sentinel has been written to the request's channel.
SentinelWritten(r) == Count(written[r], NoneSentinel) > 0

\* The worker has taken the item and has not yet written its sentinel: the
\* span in which the item's Generation Session would run.
Active(r) == Dequeued(r) /\ ~SentinelWritten(r)

C2_EnqueueOrder ==
    \A a, b \in Requests :
        (a < b /\ Admitted(a) /\ Admitted(b) /\ written[b] # <<>>)
            => SentinelWritten(a)

\* C2 witness: the later request's channel has been written, the earlier
\* request having been served to its sentinel first.
C2_Witness ==
    /\ Admitted(1) /\ Admitted(2)
    /\ SentinelWritten(1)
    /\ written[2] # <<>>

\* C3: every dequeued item gets the sentinel exactly once: never twice,
\* always as the last thing written, and no dequeued item is left without
\* it once the worker has let go of it (also when the worker is cancelled).
C3_SentinelExactlyOnce ==
    \A r \in Requests :
        /\ Count(written[r], NoneSentinel) <= 1
        /\ SentinelWritten(r) => written[r][Len(written[r])] = NoneSentinel
        /\ (Dequeued(r) /\ workerItem # r) => Count(written[r], NoneSentinel) = 1
        /\ written[r] # <<>> => Dequeued(r)

\* C3 witness: the worker task has ended cancelled and an item it had
\* dequeued carries exactly one sentinel.
C3_Witness ==
    /\ workerPc = "cancelled"
    /\ \E r \in Requests : Dequeued(r) /\ Count(written[r], NoneSentinel) = 1

\* C4 (as claimed): a request whose AbortSignal was already set when the
\* worker dequeued it (every check point of the worker lies after the set)
\* gets no frame of any kind on its channel, only the sentinel.
C4_NoFrameAfterAbort ==
    \A r \in abortedAtDequeue : NonSentinel(written[r]) = <<>>

\* C5: every failed item gets exactly one error frame followed by the
\* sentinel, and a failure never ends the worker: the task ends only by
\* cancellation, and after the sentinel the worker is back at get().
C5_OneErrorFrameThenSentinel ==
    /\ \A r \in Requests :
          /\ SentinelWritten(r)
               => written[r] = <<ErrorFrame(BindError), NoneSentinel>>
          /\ (Dequeued(r) /\ ~SentinelWritten(r))
               => written[r] \in {<<>>, <<ErrorFrame(BindError)>>}
    /\ workerPc = "cancelled" => cancelRequested
    /\ (\E r \in Requests : SentinelWritten(r)) /\ workerItem = 0
          => workerPc \in {"get", "cancelled"}

\* C5 witness: the worker survived the failure of the first item and ran
\* the second one, which failed the same way.
C5_Witness ==
    /\ written[1] = <<ErrorFrame(BindError), NoneSentinel>>
    /\ written[2] = <<ErrorFrame(BindError), NoneSentinel>>

C7_RejectedLeavesNoTrace ==
    /\ [](\A r \in Requests :
            phase[r] = "rejected"
              => /\ ~InQueue(r)
                 /\ workerItem # r /\ current_abort_event # r
                 /\ chan[r] = <<>> /\ written[r] = <<>>
                 /\ ~abort_event[r])
    /\ [][\A r \in Requests :
            (phase[r] = "none" /\ phase'[r] # "none")
              => IF is_running
                 THEN phase'[r] \in {"relay_check", "drain"} /\ InQueue(r)'
                 ELSE /\ phase'[r] = "rejected"
                      /\ UNCHANGED <<request_queue, chan, written, abort_event,
                                     workerVars, driverVars>>]_vars

\* C7 witness: a request was rejected while an earlier one had been
\* admitted and served.
C7_Witness ==
    \E r, q \in Requests :
        phase[r] = "rejected" /\ Admitted(q) /\ SentinelWritten(q)

\* The stream the scenario of C8 expects for a backend that sends a
\* RESPONSE fragment append with content "Hello" and then status FINISHED.
ScenarioStream ==
    <<ChunkFrame(<<"Hello">>, "null"), ChunkFrame(<<>>, "stop"), DoneMarker>>

\* C8 (as claimed): a streaming caller that stayed connected to the end
\* received the decoder's ChunkFrames and nothing else before the single
\* [DONE] marker; against the scenario backend these are the "Hello" frame
\* and the "stop" frame.
C8_StreamIsDecoderFrames ==
    \A r \in Requests :
        (stream[r] /\ phase[r] = "done")
          => /\ \A i \in 1..(Len(delivered[r]) - 1) :
                    delivered[r][i].kind = "chunk"
             /\ delivered[r] = ScenarioStream

\* C9 (as claimed): a non-streaming caller gets one FinalResponse after the
\* sentinel; against the scenario backend its content is "Hello" and its
\* finish_reason is "stop".
C9_FinalResponseIsHello ==
    \A r \in Requests :
        (~stream[r] /\ phase[r] = "returned")
          => final[r] = FinalResponse(<<"Hello">>, "stop")

\* The generation of the request failed: an error frame was written.
Failed(r) == \E i \in 1..Len(written[r]) : written[r][i].kind = "error"

\* C10 (as claimed): a caller that stayed to the end of a failed generation
\* sees the failure: a streaming caller receives exactly one error payload
\* and then the end of the stream, a non-streaming caller receives an error
\* body and not a chat.completion object.
C10_FailureIsSurfaced ==
    \A r \in Requests :
        /\ (phase[r] = "done" /\ Failed(r))
             => /\ Cardinality({i \in 1..Len(delivered[r]) :
                                   delivered[r][i].kind = "error"}) = 1
                /\ delivered[r][Len(delivered[r])] = DoneMarker
        /\ (phase[r] = "returned" /\ Failed(r))
             => final[r].kind = "error"

\* The relay of a streaming request is in its loop.
Relaying(r) == stream[r] /\ phase[r] \in {"relay_check", "relay_wait"}

\* The relay of a streaming request has left its loop.
RelayEnded(r) == stream[r] /\ phase[r] \in {"done", "stopped", "cancelled"}

\* C11 as stated: once the relay of a disconnected caller has stopped, that
\* request's abort event is set.
C11_DisconnectSetsAbort ==
    \A r \in Requests : (RelayEnded(r) /\ ~connected[r]) => abort_event[r]

\* C11, amended: after the caller of a streaming request disconnects the
\* relay leaves its loop, also when nothing ever arrives on the channel; the
\* wait always returns to the disconnect check (or ends the stream), the
\* first check after the disconnect stops the relay with the abort event
\* set, and the event is set whenever the relay stopped for any reason other
\* than reading the sentinel.
C11_RelayStopsAfterDisconnect ==
    /\ \A r \in Requests : (Relaying(r) /\ ~connected[r]) ~> RelayEnded(r)
    /\ [](\A r \in Requests :
             (RelayEnded(r) /\ phase[r] # "done") => abort_event[r])
    /\ [][\A r \in Requests :
             (phase[r] = "relay_wait" /\ phase'[r] # phase[r])
                 => phase'[r] \in {"relay_check", "done", "cancelled"}]_vars
    /\ [][\A r \in Requests :
             (phase[r] = "relay_check" /\ ~connected[r] /\ phase'[r] # phase[r])
                 => (phase'[r] \in {"stopped", "cancelled"} /\ abort_event'[r])]_vars

\* A caller disconnected while its item was still queued behind a cancelled
\* worker: nothing was ever written to its channel, and the relay stopped
\* at its disconnect check with the abort event set.
C11_Witness ==
    \E r \in Requests :
        /\ phase[r] = "stopped"
        /\ ~connected[r]
        /\ written[r] = <<>>
        /\ InQueue(r)
        /\ workerPc = "cancelled"
        /\ abort_event[r]


\* C12: a per-request handler (the streaming relay or the non-streaming
\* drain loop) that was cancelled before it read the sentinel has set that
\* request's abort event by the time it has unwound.
C12_CancelSetsAbort ==
    \A r \in Requests : phase[r] = "cancelled" => abort_event[r]

\* C13: every request that was admitted (its WorkItem enqueued) eventually
\* has the sentinel on its channel, and the worker dequeued it before that;
\* also when the worker is stopped or the backend crashes while the item is
\* still queued.
C13_EnqueuedIsServed ==
    \A r \in Requests : Admitted(r) ~> (Dequeued(r) /\ SentinelWritten(r))

\* The backend crash notification has fired: _handle_crash cleared
\* is_running while the server was still up.
Crashed == serverUp /\ ~is_running /\ ~monitoring_active

\* C15: after a crash notification the request the worker holds ends with
\* an error frame and then the sentinel, and the worker is still there to
\* serve the requests that are queued.
C15_CrashLeavesWorkerServing ==
    Crashed =>
        /\ \A r \in Requests :
               (Dequeued(r) /\ SentinelWritten(r)) =>
                   /\ Len(written[r]) = 2
                   /\ written[r][1].kind = "error"
                   /\ written[r][2] = NoneSentinel
        /\ request_queue # <<>> => workerPc # "cancelled"


\* The operation is a status CONTENT_FILTER that the decoder suppresses.
Suppressed(item) ==
    anti_censorship /\ item.p = "status" /\ item.status = "CONTENT_FILTER"

RECURSIVE BeforeFilter(_)
\* The operations of a frame up to its first suppressed CONTENT_FILTER.
BeforeFilter(ops) ==
    IF ops = <<>> \/ Suppressed(Head(ops))
    THEN <<>>
    ELSE <<Head(ops)>> \o BeforeFilter(Tail(ops))

RECURSIVE DescriptorsOf(_)
\* The declared types of the descriptors of the fragments-append
\* operations among ops, in arrival order.
DescriptorsOf(ops) ==
    IF ops = <<>>
    THEN <<>>
    ELSE DescriptorTypes(Head(ops).fragments) \o DescriptorsOf(Tail(ops))

\* A suppressed CONTENT_FILTER is among the operations of the last frame.
FilterFrame == \E i \in 1..Len(frame_ops) : Suppressed(frame_ops[i])

\* C16 as stated: after any sequence of frames the registry is the list of
\* the declared types of all descriptors the backend sent in
\* fragments-append operations, in arrival order.
C16_RegistryIsDescriptorsSent ==
    decoderPc = "idle" => fragment_types_list = descriptors_seen

\* C16, amended: the registry is the list, in arrival order, of the
\* declared types of the descriptors of the fragments-append operations the
\* decoder processed; these are all the descriptors sent, except those of
\* operations that follow a suppressed CONTENT_FILTER in the same batch.
C16_RegistryIsDescriptorsProcessed ==
    /\ decoderPc = "idle" =>
          fragment_types_list =
              list_before \o DescriptorsOf(BeforeFilter(frame_ops))
    /\ ~anti_censorship => fragment_types_list = descriptors_seen
    /\ Len(fragment_types_list) <= Len(descriptors_seen)

\* Two descriptors were sent; one was registered and the other came after
\* a suppressed CONTENT_FILTER in the same batch.
C16_Witness ==
    /\ decoderPc = "idle"
    /\ FilterFrame
    /\ Len(list_before) = 1
    /\ fragment_types_list = list_before
    /\ Len(descriptors_seen) = 2


\* The operations of the last frame that follow its first suppressed
\* CONTENT_FILTER.
AfterFilter ==
    SubSeq(frame_ops, Len(BeforeFilter(frame_ops)) + 2, Len(frame_ops))

RECURSIVE OpenAfterDescriptors(_, _)
\* Whether a thinking segment is open after the descriptors: THINK opens
\* one, RESPONSE closes it.
OpenAfterDescriptors(frags, open) ==
    IF frags = <<>>
    THEN open
    ELSE OpenAfterDescriptors(Tail(frags),
                              IF Head(frags).type = "THINK" THEN TRUE
                              ELSE IF Head(frags).type = "RESPONSE" THEN FALSE
                              ELSE open)

RECURSIVE OpenAfter(_, _)
\* Whether a thinking segment is open after the operations: status
\* FINISHED closes it, fragments-append operations as above.
OpenAfter(ops, open) ==
    IF ops = <<>>
    THEN open
    ELSE OpenAfter(Tail(ops),
                   IF Head(ops).p = "status" /\ Head(ops).status = "FINISHED"
                   THEN FALSE
                   ELSE OpenAfterDescriptors(Head(ops).fragments, open))

\* A thinking segment is open when the suppressed CONTENT_FILTER of the
\* last frame is reached.
OpenAtFilter == OpenAfter(BeforeFilter(frame_ops), thinking_before)

\* A piece of text without what the decoder added to it: where it came
\* from.
TextKey(piece) ==
    IF piece.src = "indexed"
    THEN <<"indexed", "", piece.index>>
    ELSE <<piece.src, piece.tag, 0>>

RECURSIVE InlineKeys(_)
\* The inline content the descriptors carry.
InlineKeys(frags) ==
    IF frags = <<>>
    THEN <<>>
    ELSE (IF Head(frags).has_content
          THEN <<<<"inline", Head(frags).type, 0>>>>
          ELSE <<>>) \o InlineKeys(Tail(frags))

RECURSIVE OfferedKeys(_)
\* The text the operations carry, in arrival order.
OfferedKeys(ops) ==
    IF ops = <<>>
    THEN <<>>
    ELSE (IF Head(ops).p = "content"
          THEN <<<<"indexed", "", Head(ops).index>>>>
          ELSE InlineKeys(Head(ops).fragments)) \o OfferedKeys(Tail(ops))

\* The content of the chunk emitted for the last frame (empty when none
\* was emitted).
EmittedContent == IF emitted = <<>> THEN <<>> ELSE emitted[1].content

\* The markers in a content, and its text.
MarkersIn(text) == SelectSeq(text, LAMBDA piece : piece.src = "marker")

RECURSIVE KeysIn(_)
KeysIn(text) ==
    IF text = <<>>
    THEN <<>>
    ELSE (IF Head(text).src = "marker" THEN <<>> ELSE <<TextKey(Head(text))>>)
         \o KeysIn(Tail(text))

\* Every piece of text in the emitted chunk is accounted for by an
\* operation among ops.
TextOnlyFrom(ops) ==
    \A i \in 1..Len(KeysIn(EmittedContent)) :
        Count(KeysIn(EmittedContent), KeysIn(EmittedContent)[i])
            <= Count(OfferedKeys(ops), KeysIn(EmittedContent)[i])

\* C17 as stated: with suppression on, a batch that holds status
\* CONTENT_FILTER yields one chunk with finish_reason "stop" and no text of
\* the operations after the status; if a thinking segment is open the
\* chunk holds the closing marker, and thinking_active is false afterwards.
C17_FilterStopsAndCloses ==
    (decoderPc = "idle" /\ FilterFrame) =>
        /\ Len(emitted) = 1
        /\ emitted[1].finish_reason = "stop"
        /\ TextOnlyFrom(BeforeFilter(frame_ops))
        /\ OpenAtFilter =>
              \E i \in 1..Len(EmittedContent) : EmittedContent[i] = CloseMarker
        /\ ~thinking_active

\* C17, amended: the closing marker is in the chunk, as its last piece,
\* when a thinking segment is open and send_deepthink is on; with
\* send_deepthink off the segment is closed without any marker.
C17_FilterStopsAndClosesIfSent ==
    (decoderPc = "idle" /\ FilterFrame) =>
        /\ Len(emitted) = 1
        /\ emitted[1].finish_reason = "stop"
        /\ TextOnlyFrom(BeforeFilter(frame_ops))
        /\ (OpenAtFilter /\ send_deepthink) =>
              /\ EmittedContent # <<>>
              /\ EmittedContent[Len(EmittedContent)] = CloseMarker
        /\ ~send_deepthink => MarkersIn(EmittedContent) = <<>>
        /\ ~thinking_active

\* A batch whose first operation is a suppressed CONTENT_FILTER arrived
\* while a thinking segment was open, with text in the operation after it:
\* the chunk is the closing marker with finish_reason "stop".
C17_Witness ==
    /\ decoderPc = "idle"
    /\ FilterFrame
    /\ thinking_before
    /\ send_deepthink
    /\ BeforeFilter(frame_ops) = <<>>
    /\ OfferedKeys(AfterFilter) # <<>>
    /\ emitted = <<ChunkFrame(<<CloseMarker>>, "stop")>>
    /\ ~thinking_active


\* C18: with suppression on, the chunk emitted for a batch that holds
\* status CONTENT_FILTER carries nothing of the other operations of the
\* batch, before or after the status: its content is at most the closing
\* marker.
C18_FilterFrameCarriesOnlyMarker ==
    (decoderPc = "idle" /\ FilterFrame) =>
        \A i \in 1..Len(EmittedContent) : EmittedContent[i] = CloseMarker

\* The latest fragment registered before the last frame ("" when none).
LatestBefore ==
    IF list_before = <<>> THEN "" ELSE list_before[Len(list_before)]

\* C19: no emitted chunk holds content of a fragment whose registered type
\* is SEARCH: not the inline content of a SEARCH descriptor, not a content
\* update for an index registered as SEARCH, and not the string of a
\* path-less frame that arrives while a SEARCH fragment is the latest one.
C19_SearchContentNeverEmitted ==
    decoderPc = "idle" =>
        /\ \A i \in 1..Len(EmittedContent) : EmittedContent[i].tag # "SEARCH"
        /\ (frame_form = "string" /\ LatestBefore = "SEARCH") => emitted = <<>>

\* C20: with send_deepthink off no emitted chunk holds an opening or a
\* closing marker, the inline content of a THINK descriptor, a content
\* update for an index registered as THINK, or the string of a path-less
\* frame that arrived while thinking_active was set.
C20_NoThinkingWithoutPassThrough ==
    (decoderPc = "idle" /\ ~send_deepthink) =>
        /\ MarkersIn(EmittedContent) = <<>>
        /\ \A i \in 1..Len(EmittedContent) : EmittedContent[i].tag # "THINK"
        /\ (frame_form = "string" /\ thinking_before) => emitted = <<>>

\* With send_deepthink off, a THINK and a RESPONSE fragment are registered
\* and the last frame, a content update for the THINK fragment, gave no
\* chunk.
C20_Witness ==
    /\ decoderPc = "idle"
    /\ ~send_deepthink
    /\ fragment_types_list = <<"THINK", "RESPONSE">>
    /\ frame_ops = <<ContentOp(0)>>
    /\ emitted = <<>>


\* C14: the decoder state is the state the frames of the latest call's own
\* backend response give from the reset at the start of the call, and the
\* chunk decoded from a frame of that response is the chunk those frames
\* alone give: no handler of an earlier call reads or writes it.
C14_DecoderStateOwned ==
    session >= 1 =>
        /\ fragment_types_list = own_list
        /\ thinking_active = own_thinking
        /\ frame_session = session => emitted = own_emitted

\* The index names no entry of the list: it is outside 0..len-1.
NoEntry(index, list) == index < 0 \/ index >= Len(list)

\* C23: a frame whose operations are content updates for indexes that have
\* no entry in fragment_types_list (outside 0..len-1, the empty list
\* included) emits no chunk and leaves fragment_types_list and
\* thinking_active as they were.
C23_UnregisteredIndexDropped ==
    (/\ decoderPc = "idle"
     /\ frame_ops # <<>>
     /\ \A k \in 1..Len(frame_ops) :
           /\ frame_ops[k].p = "content"
           /\ NoEntry(frame_ops[k].index, list_before)) =>
        /\ emitted = <<>>
        /\ fragment_types_list = list_before
        /\ thinking_active = thinking_before

\* C25: a backend frame gives at most one chunk: none when it yields
\* neither text nor a finish reason, else one chunk that holds the text and
\* the finish reason the frame yielded; no chunk has empty content and a
\* null finish_reason.
C25_AtMostOneChunkPerFrame ==
    decoderPc = "idle" =>
        /\ Len(emitted) <= 1
        /\ emitted = <<>> <=> (content = <<>> /\ data_finish_reason = "null")
        /\ \A i \in 1..Len(emitted) :
              /\ emitted[i] = ChunkFrame(content, data_finish_reason)
              /\ emitted[i].content # <<>> \/ emitted[i].finish_reason # "null"

\* A batch of a fragments append with inline content and a status FINISHED
\* gave one chunk with both the text and finish_reason "stop".
C25_Witness ==
    /\ decoderPc = "idle"
    /\ frame_form = "batch"
    /\ Len(frame_ops) = 2
    /\ frame_ops[1].p = "fragments"
    /\ frame_ops[2] = StatusOp("FINISHED")
    /\ Len(emitted) = 1
    /\ emitted[1].content # <<>>
    /\ emitted[1].finish_reason = "stop"

RECURSIVE Paired(_, _)
\* Reads the markers from a state "open" (an opening marker is unmatched)
\* or "closed": the state after them, or "bad" when an opening marker
\* follows an unmatched opening one or a closing marker has no opening one.
Paired(state, markers) ==
    IF markers = <<>> \/ state = "bad"
    THEN state
    ELSE IF Head(markers) = OpenMarker
         THEN Paired(IF state = "closed" THEN "open" ELSE "bad", Tail(markers))
         ELSE Paired(IF state = "open" THEN "closed" ELSE "bad", Tail(markers))

\* C26: with send_deepthink on, the markers emitted in a session alternate,
\* opening first, and thinking_active is set exactly when an opening marker
\* is unmatched.  Stated frame by frame: read from the value thinking_active
\* had before the frame, the markers of the chunk of the frame are paired
\* and lead to the value thinking_active has after it.
C26_MarkersPaired ==
    (decoderPc = "idle" /\ send_deepthink) =>
        Paired(IF thinking_before THEN "open" ELSE "closed",
               MarkersIn(EmittedContent))
            = (IF thinking_active THEN "open" ELSE "closed")

\* The last line gave no frame because decoding it failed.
FrameFailed == frame_form \in {"malformed", "raised"}

\* C24: a line that fails to decode puts no chunk, and the chunks of the
\* response are those its other lines give when the failing ones are left
\* out: every well-formed line before and after a failing one, in the same
\* network chunk or not, is decoded.  (Lines that straddle chunks aside.)
C24_FailureConfinedToFrame ==
    /\ FrameFailed => emitted = <<>>
    /\ ~split_seen => out = ref_out

\* C27: the chunks of a response do not depend on how its bytes are cut
\* into network chunks: they are the chunks its lines give when each is
\* decoded whole, also when a data line straddles two chunks.  (Responses
\* with lines that fail to decode aside.)
C27_ChunkingIndependent ==
    (~failed_seen /\ straddling = <<>>) => out = ref_out

\* C28: a line whose decoding failed leaves fragment_types_list and
\* thinking_active as they were before it.
C28_SkippedFrameLeavesState ==
    FrameFailed =>
        /\ fragment_types_list = list_before
        /\ thinking_active = thinking_before

\* The chunks with a finish_reason.
FinishFrames(frames) ==
    SelectSeq(frames, LAMBDA f : f.finish_reason # "null")

\* The backend response ended, every line of it was whole and decoded, and
\* its last frame was a status FINISHED or CONTENT_FILTER.
EndedCleanly ==
    /\ session >= 1
    /\ handler[session] = "ended"
    /\ ~failed_seen
    /\ ~split_seen
    /\ lines_fed >= 1
    /\ frame_ops \in {<<StatusOp("FINISHED")>>, <<StatusOp("CONTENT_FILTER")>>}

\* C29: when the backend response ends without error, the chunks put for
\* it hold exactly one chunk with a finish_reason, it is "stop", and it is
\* the last chunk, whatever status values the backend sent and whatever
\* anti_censorship is.
C29_ExactlyOneFinishFrame ==
    EndedCleanly =>
        /\ Len(FinishFrames(out)) = 1
        /\ out[Len(out)].finish_reason = "stop"

\* The call has routed its handlers and its generator has neither ended
\* nor been dropped.
TapInUse(s) == genPc[s] \in {"interact", "get", "yield"}

\* C21: from the moment a call has routed its handlers until its own
\* generator ends, the handlers stay routed for both patterns (no other
\* call's finally clause removes them), so the backend request of the call
\* is taken by a route.
C21_TapStaysInstalled ==
    /\ \A s \in Sessions :
          TapInUse(s) => \A p \in Patterns : Routed(s, p)
    /\ missed = {}

\* C22: when None has been put for a call, the handlers of the call are
\* routed for no pattern.
C22_TapGoneBeforeSentinel ==
    \A s \in sentinel_put : \A p \in Patterns : ~Routed(s, p)

\* C30: whenever a call has clicked the regenerate button instead of
\* starting a new chat, the prompt last sent in the chat the page shows is
\* the formatted message of the call.
C30_RegenerateOnlyOnLastPrompt ==
    (promptPc = "sent" /\ regenerated) => ui_prompt = formatted_message


====
